---- MODULE Spec2Model ----
(***************************************************************************)
(* Apollo federation gateway: the unified authentication middleware        *)
(* (src/src/middleware/authentication-unified.ts), the resilient startup  *)
(* of the gateway server (src/unnamed/part_002, the compiled server        *)
(* module) and the service checker behind GET /health/detailed             *)
(* (src/src/gateway/resilient-gateway.ts).                                 *)
(*                                                                         *)
(* Strings the code inspects character by character (the Authorization     *)
(* header, the bearer token) are sequences of one-character strings.       *)
(* Date.now() is the variable now, in milliseconds.                        *)
(***************************************************************************)
EXTENDS Integers, Sequences, FiniteSets, Bags, TLC

\* --------------------------------------------------------------------------
\* Bounds of the model
\* --------------------------------------------------------------------------
\* Number of TTL periods the clock runs through.
MaxPeriods == 1
\* Number of requests that can be inside authenticateRequest together.
MaxReqs == 2
\* Longest string handed to detectTokenType on its own.
MaxLen == 4
\* Number of polling cycles of the composition engine that are followed.
MaxPolls == 2
\* Number of checkServiceHealth runs that can be in progress together.
MaxRuns == 2

\* --------------------------------------------------------------------------
\* Program constants
\* --------------------------------------------------------------------------
CACHE_TTL_SECONDS == 300

CacheTtlMs == CACHE_TTL_SECONDS * 1000

\* The instants the clock visits: every multiple of the TTL up to MaxPeriods
\* periods, and the millisecond before and after each.
Instants ==
    { k * CacheTtlMs + j : k \in 0..MaxPeriods, j \in {-1, 0, 1} } \ {-1}

\* --------------------------------------------------------------------------
\* JavaScript values
\* --------------------------------------------------------------------------
\* undefined / null for string-valued things (header, token): a sequence that
\* is no string of characters.
UndefinedStr == <<"undefined">>
\* undefined for scalar fields (ids, e-mail).
UndefinedVal == "undefined"
\* undefined for objects.
UndefinedObj == [undefined |-> TRUE]

\* Truthiness of a string held as a character sequence.
TruthyStr(s) == s # UndefinedStr /\ s # <<>>
\* Truthiness of a scalar field.
TruthyVal(v) == v # UndefinedVal /\ v # ""
\* a || b on scalar fields.
JsOr(a, b) == IF TruthyVal(a) THEN a ELSE b

\* --------------------------------------------------------------------------
\* The inputs of the model
\* --------------------------------------------------------------------------
Bearer == <<"B", "e", "a", "r", "e", "r">>

\* Opaque reference (Sanctum) credentials and a self-contained (JWT) one.
TokSanctumA == <<"1", "|", "a">>
TokSanctumB == <<"|">>
TokJwt == <<"e", "y">>

SanctumTokens == {TokSanctumA, TokSanctumB}
Tokens == SanctumTokens \cup {TokJwt}

\* Authorization headers: absent, well formed, and malformed in each way.
Headers ==
    { UndefinedStr,                                   \* no header
      <<>>,                                           \* empty header
      Bearer,                                         \* one part
      Bearer \o <<" ">>,                              \* empty second part
      Bearer \o <<" ", " ">> \o TokSanctumA,          \* two spaces
      Bearer \o <<" ">> \o TokJwt \o <<" ", "x">>,    \* three parts
      <<"T", "o", "k", "e", "n", " ">> \o TokJwt,     \* Token xyz
      <<"b", "e", "a", "r", "e", "r", " ">> \o TokSanctumA } \* lower case
    \cup { Bearer \o <<" ">> \o t : t \in Tokens }

\* Identities the authority can answer with.
UserA == [id |-> "7", email |-> "a@x"]
UserB == [id |-> "8", email |-> "b@x"]
UserNoId == [id |-> "", email |-> "c@x"]

\* What axios.post can produce: a transport error (code), or a response whose
\* body has or lacks errors and data.validateToken.
AuthorityResponses ==
    { [transport |-> c, errors |-> FALSE, validateToken |-> UndefinedObj]
        : c \in {"ECONNREFUSED", "ECONNABORTED"} }
    \cup { [transport |-> "ok", errors |-> TRUE, validateToken |-> UserA] }
    \cup { [transport |-> "ok", errors |-> FALSE, validateToken |-> u]
            : u \in {UndefinedObj, UserNoId, UserA, UserB} }

\* What jwt.verify can produce: the decoded claims, or one of its errors.
JwtPayloads ==
    { [userId |-> "7", sub |-> UndefinedVal, id |-> UndefinedVal, email |-> "a@x"],
      [userId |-> UndefinedVal, sub |-> "9", id |-> "3", email |-> "b@x"],
      [userId |-> "", sub |-> UndefinedVal, id |-> "5", email |-> "c@x"],
      [userId |-> UndefinedVal, sub |-> UndefinedVal, id |-> UndefinedVal,
       email |-> "d@x"] }

JwtOutcomes ==
    { [kind |-> "decoded", payload |-> p] : p \in JwtPayloads }
    \cup { [kind |-> k, payload |-> UndefinedObj]
            : k \in {"TokenExpiredError", "JsonWebTokenError", "Error"} }

\* A req.auth left on the request by something upstream of the middleware.
StaleAuth ==
    [authenticated |-> TRUE, user |-> [id |-> "0", email |-> "stale@x"],
     token |-> TokJwt, tokenType |-> "jwt"]

\* --------------------------------------------------------------------------
\* State
\* --------------------------------------------------------------------------
VARIABLES
    now,          \* Date.now()
    tokenCache,   \* the Map tokenCache: cache key -> [userData, expiresAt]
    writtenAt,    \* history: cache key -> time of the cacheValidation call
    inflight,     \* bag of the invocations suspended at await axios.post
    served,       \* the last authenticateRequest invocation that returned
    cleared,      \* history: the credential clearTokenCache was last called
                  \* with, until a request presents it again
    sweepTimer,   \* the interval timer of the sweep: when it fires next, and
                  \* what cleanExpiredCache returned when it fired last
    dtInput,      \* the string handed to detectTokenType on its own
    dtSeen,       \* the results detectTokenType has returned for dtInput
    guardInput,   \* the request and the allowed roles handed to the guards
    guardResult,  \* what requireAuth and requireRole did with guardInput
    phase,        \* position of the startup chain of the server module
    serverStarted,
    schemaReady,
    graphqlRoutes, \* the /graphql routes are registered on the express app
    startOutcome, \* how apolloServer.start() settled
    up,           \* the subgraph services that are reachable right now
    polls,        \* polling cycles the composition engine has run
    recomposed,   \* a polling cycle has composed the schema after startup
    lastResponse, \* the last HTTP exchange: path and status
    runs,         \* bag of the checkServiceHealth runs suspended at await fetch
    availableServices,   \* this.availableServices of the service checker
    unavailableServices, \* this.unavailableServices of the service checker
    detailed,     \* the last answer of GET /health/detailed
    lastProbe,    \* history: service name -> how its last completed probe ended
    recoveredLog  \* the service the last completed probe logged as recovered

authVars == <<now, tokenCache, writtenAt, inflight, served, cleared, sweepTimer>>

detectVars == <<dtInput, dtSeen, guardInput, guardResult>>

healthVars == <<runs, availableServices, unavailableServices, detailed,
               lastProbe, recoveredLog>>

gatewayVars == <<phase, serverStarted, schemaReady, graphqlRoutes, startOutcome,
                 up, polls, recomposed, lastResponse, healthVars>>

vars == <<authVars, detectVars, gatewayVars>>

\* No returned invocation is waiting to be looked at.
NoObservation == [cause |-> "nothing"]

\* The AuthContext of the first statement of authenticateRequest.
Unauthenticated == [authenticated |-> FALSE]

\* --------------------------------------------------------------------------
\* Pure functions of the middleware
\* --------------------------------------------------------------------------
\* Index of the first occurrence of c in s, 0 when there is none.
IndexOf(s, c) ==
    IF \E i \in 1..Len(s) : s[i] = c
    THEN CHOOSE i \in 1..Len(s) : s[i] = c /\ \A j \in 1..(i - 1) : s[j] # c
    ELSE 0

RECURSIVE JsSplit(_)
\* String.prototype.split(' ')
JsSplit(s) ==
    LET i == IndexOf(s, " ")
    IN  IF i = 0 THEN <<s>>
        ELSE <<SubSeq(s, 1, i - 1)>> \o JsSplit(SubSeq(s, i + 1, Len(s)))

\* String.prototype.includes(sub)
JsIncludes(s, sub) ==
    \E i \in 1..(Len(s) - Len(sub) + 1) : SubSeq(s, i, i + Len(sub) - 1) = sub

\* The mutant of extractToken that compares the scheme word without case.
extractTokenAnyCase(authHeader) ==
    IF ~TruthyStr(authHeader) THEN UndefinedStr
    ELSE LET parts == JsSplit(authHeader)
         IN  IF Len(parts) # 2
                \/ parts[1] \notin {Bearer, <<"b", "e", "a", "r", "e", "r">>}
             THEN UndefinedStr
             ELSE parts[2]

extractToken(authHeader) ==
    IF ~TruthyStr(authHeader) THEN UndefinedStr
    ELSE LET parts == JsSplit(authHeader)
         IN  IF Len(parts) # 2 \/ parts[1] # Bearer THEN UndefinedStr
             ELSE parts[2]

\* The mutant of detectTokenType that tests indexOf('|') > 0.
detectTokenTypeAfterFirst(token) ==
    IF \E i \in 2..Len(token) : token[i] = "|" THEN "sanctum" ELSE "jwt"

\* The mutant of detectTokenType that sends every credential to the
\* authority.
detectTokenTypeAlwaysSanctum(token) == "sanctum"

detectTokenType(token) ==
    IF JsIncludes(token, <<"|">>) THEN "sanctum" ELSE "jwt"

\* The hex digest of crypto.createHash('md5'): an injective tag of its input
\* (the digest is taken to be collision free on the credentials of the model).
Md5Hex(token) == <<"md5">> \o token

getCacheKey(token) == <<"token:">> \o Md5Hex(token)

\* The function h on the part of its domain inside D.
Restrict(h, D) == [k \in D \cap DOMAIN h |-> h[k]]

\* Map.prototype.delete
MapDelete(m, k) == [x \in (DOMAIN m) \ {k} |-> m[x]]

\* Map.prototype.set
MapSet(m, k, v) == [x \in (DOMAIN m) \cup {k} |-> IF x = k THEN v ELSE m[x]]

\* The mutant of getCachedValidation that expires an entry at expiresAt.
getCachedValidationAtExpiry(cache, token, t) ==
    LET cacheKey == getCacheKey(token)
    IN  IF cacheKey \notin DOMAIN cache
        THEN [result |-> UndefinedObj, cache |-> cache, found |-> "absent"]
        ELSE IF t >= cache[cacheKey].expiresAt
        THEN [result |-> UndefinedObj, cache |-> MapDelete(cache, cacheKey),
              found |-> "expired"]
        ELSE [result |-> cache[cacheKey].userData, cache |-> cache,
              found |-> "live"]

\* The mutant of getCachedValidation that leaves expiry to the sweep.
getCachedValidationNoExpiry(cache, token, t) ==
    LET cacheKey == getCacheKey(token)
    IN  IF cacheKey \notin DOMAIN cache
        THEN [result |-> UndefinedObj, cache |-> cache, found |-> "absent"]
        ELSE [result |-> cache[cacheKey].userData, cache |-> cache,
              found |-> "live"]

\* The mutant of getCachedValidation that renews the expiry of an entry on
\* every hit.
getCachedValidationSliding(cache, token, t) ==
    LET cacheKey == getCacheKey(token)
    IN  IF cacheKey \notin DOMAIN cache
        THEN [result |-> UndefinedObj, cache |-> cache, found |-> "absent"]
        ELSE IF t > cache[cacheKey].expiresAt
        THEN [result |-> UndefinedObj, cache |-> MapDelete(cache, cacheKey),
              found |-> "expired"]
        ELSE [result |-> cache[cacheKey].userData,
              cache |-> MapSet(cache, cacheKey,
                               [userData |-> cache[cacheKey].userData,
                                expiresAt |-> t + CacheTtlMs]),
              found |-> "live"]

\* The mutant of getCachedValidation that empties the cache when it finds an
\* expired entry.
getCachedValidationClearsAll(cache, token, t) ==
    LET cacheKey == getCacheKey(token)
    IN  IF cacheKey \notin DOMAIN cache
        THEN [result |-> UndefinedObj, cache |-> cache, found |-> "absent"]
        ELSE IF t > cache[cacheKey].expiresAt
        THEN [result |-> UndefinedObj, cache |-> <<>>, found |-> "expired"]
        ELSE [result |-> cache[cacheKey].userData, cache |-> cache,
              found |-> "live"]

\* getCachedValidation: the value returned (UndefinedObj for null), the cache
\* it leaves, and what the lookup found.
getCachedValidation(cache, token, t) ==
    LET cacheKey == getCacheKey(token)
    IN  IF cacheKey \notin DOMAIN cache
        THEN [result |-> UndefinedObj, cache |-> cache, found |-> "absent"]
        ELSE IF t > cache[cacheKey].expiresAt
        THEN [result |-> UndefinedObj, cache |-> MapDelete(cache, cacheKey),
              found |-> "expired"]
        ELSE [result |-> cache[cacheKey].userData, cache |-> cache,
              found |-> "live"]

\* The mutant of cacheValidation that adds the TTL in seconds to a time in
\* milliseconds.
cacheValidationSeconds(cache, token, userData, t) ==
    MapSet(cache, getCacheKey(token),
           [userData |-> userData, expiresAt |-> t + CACHE_TTL_SECONDS])

\* The mutant of cacheValidation that keeps an entry that is already there.
cacheValidationKeepsFirst(cache, token, userData, t) ==
    IF getCacheKey(token) \in DOMAIN cache THEN cache
    ELSE MapSet(cache, getCacheKey(token),
                [userData |-> userData, expiresAt |-> t + CacheTtlMs])

\* cacheValidation: the entry of the credential is set, whatever was there,
\* to expire CACHE_TTL_SECONDS after t.
cacheValidation(cache, token, userData, t) ==
    MapSet(cache, getCacheKey(token),
           [userData |-> userData, expiresAt |-> t + (CACHE_TTL_SECONDS * 1000)])

\* validateJWTToken: either req.auth is assigned or an Error is thrown.
\* identity is the principal the validator established.
validateJWTToken(token, out) ==
    IF out.kind = "decoded"
    THEN LET user == [id |-> JsOr(JsOr(out.payload.userId, out.payload.sub),
                                  out.payload.id),
                      email |-> out.payload.email]
         IN  [threw |-> FALSE,
              auth |-> [authenticated |-> TRUE, user |-> user, token |-> token,
                        tokenType |-> "jwt"],
              identity |-> user,
              cause |-> "jwt-ok"]
    ELSE [threw |-> TRUE, auth |-> UndefinedObj, identity |-> UndefinedObj,
          cause |-> out.kind]

\* validateSanctumToken when the lookup has hit: req.auth is assigned.
validateSanctumTokenCached(token, cachedUser) ==
    [threw |-> FALSE,
     auth |-> [authenticated |-> TRUE, user |-> cachedUser, token |-> token,
               tokenType |-> "sanctum"],
     identity |-> cachedUser,
     cause |-> "cache-hit"]

\* The mutant of validateSanctumTokenResume that stores the answer before
\* it has examined it.
validateSanctumTokenResumeCachesFirst(cache, token, t, response) ==
    LET stored == IF response.transport = "ok" /\ response.validateToken # UndefinedObj
                  THEN cacheValidation(cache, token, response.validateToken, t)
                  ELSE cache
    IN  IF response.transport = "ok" /\ ~response.errors
           /\ response.validateToken # UndefinedObj
           /\ TruthyVal(response.validateToken.id)
        THEN [threw |-> FALSE,
              auth |-> [authenticated |-> TRUE, user |-> response.validateToken,
                        token |-> token, tokenType |-> "sanctum"],
              identity |-> response.validateToken,
              cache |-> stored, cause |-> "authority-ok"]
        ELSE [threw |-> TRUE, auth |-> UndefinedObj, identity |-> UndefinedObj,
              cache |-> stored,
              cause |-> IF response.transport # "ok" THEN response.transport
                        ELSE IF response.errors THEN "graphql-errors"
                        ELSE IF response.validateToken = UndefinedObj
                        THEN "no-user-data" ELSE "empty-id"]

\* The mutant of validateSanctumTokenResume that accepts and caches user data
\* without looking at its id.
validateSanctumTokenResumeNoIdCheck(cache, token, t, response) ==
    IF response.transport # "ok"
    THEN [threw |-> TRUE, auth |-> UndefinedObj, identity |-> UndefinedObj,
          cache |-> cache, cause |-> response.transport]
    ELSE IF response.errors
    THEN [threw |-> TRUE, auth |-> UndefinedObj, identity |-> UndefinedObj,
          cache |-> cache, cause |-> "graphql-errors"]
    ELSE IF response.validateToken = UndefinedObj
    THEN [threw |-> TRUE, auth |-> UndefinedObj, identity |-> UndefinedObj,
          cache |-> cache, cause |-> "no-user-data"]
    ELSE [threw |-> FALSE,
          auth |-> [authenticated |-> TRUE, user |-> response.validateToken,
                    token |-> token, tokenType |-> "sanctum"],
          identity |-> response.validateToken,
          cache |-> cacheValidation(cache, token, response.validateToken, t),
          cause |-> "authority-ok"]

\* validateSanctumToken after the await: the response of axios.post is
\* examined, a success is cached and attached, anything else throws.
validateSanctumTokenResume(cache, token, t, response) ==
    IF response.transport # "ok"
    THEN [threw |-> TRUE, auth |-> UndefinedObj, identity |-> UndefinedObj,
          cache |-> cache, cause |-> response.transport]
    ELSE IF response.errors
    THEN [threw |-> TRUE, auth |-> UndefinedObj, identity |-> UndefinedObj,
          cache |-> cache, cause |-> "graphql-errors"]
    ELSE IF response.validateToken = UndefinedObj
    THEN [threw |-> TRUE, auth |-> UndefinedObj, identity |-> UndefinedObj,
          cache |-> cache, cause |-> "no-user-data"]
    ELSE IF ~TruthyVal(response.validateToken.id)
    THEN [threw |-> TRUE, auth |-> UndefinedObj, identity |-> UndefinedObj,
          cache |-> cache, cause |-> "empty-id"]
    ELSE [threw |-> FALSE,
          auth |-> [authenticated |-> TRUE, user |-> response.validateToken,
                    token |-> token, tokenType |-> "sanctum"],
          identity |-> response.validateToken,
          cache |-> cacheValidation(cache, token, response.validateToken, t),
          cause |-> "authority-ok"]

\* The mutant of InitialAuth that keeps a context already on the request.
InitialAuthKeepsPrior(prior) ==
    IF prior = UndefinedObj THEN Unauthenticated ELSE prior

\* The AuthContext authenticateRequest starts from, whatever was on the
\* request before.
InitialAuth(prior) == Unauthenticated

\* The mutant of FailedAuth that reports why the validator failed.
FailedAuthWithReason(cause) == [authenticated |-> FALSE, error |-> cause]

\* The AuthContext the catch block of authenticateRequest assigns.
FailedAuth(cause) == Unauthenticated

\* authenticateRequest when extractToken gave nothing: next() and return.
authenticateRequestNoToken(auth0) ==
    [auth |-> auth0, nextCalls |-> 1, nextArg |-> UndefinedVal, escaped |-> FALSE]

\* The mutant of authenticateRequestSettle without the try/catch: the
\* validator's Error leaves authenticateRequest and next() is not reached.
authenticateRequestSettleNoCatch(auth0, v) ==
    IF v.threw
    THEN [auth |-> auth0, nextCalls |-> 0, nextArg |-> UndefinedVal, escaped |-> TRUE]
    ELSE [auth |-> v.auth, nextCalls |-> 1, nextArg |-> UndefinedVal, escaped |-> FALSE]

\* authenticateRequest once the selected validator has returned or thrown:
\* the catch block, then next().
authenticateRequestSettle(auth0, v) ==
    [auth |-> IF v.threw THEN FailedAuth(v.cause) ELSE v.auth,
     nextCalls |-> 1, nextArg |-> UndefinedVal, escaped |-> FALSE]

\* What an invocation that has returned looks like from outside: the request
\* it leaves, the validator it ran, the calls it made, and how it ended.
Returned(header, token, validator, calls, cause, identity, end) ==
    [header |-> header, token |-> token, auth |-> end.auth,
     validator |-> validator, calls |-> calls, cause |-> cause,
     identity |-> identity,
     nextCalls |-> end.nextCalls, nextArg |-> end.nextArg, escaped |-> end.escaped]

\* The mutant of Suspended whose invocation repeats a call that fails.
SuspendedWithRetry(header, token, auth, found) ==
    [header |-> header, token |-> token, auth |-> auth, found |-> found,
     calls |-> 2, nextCalls |-> 0]

\* The frame of an invocation suspended at the await of axios.post.
Suspended(header, token, auth, found) ==
    [header |-> header, token |-> token, auth |-> auth, found |-> found,
     calls |-> 1, nextCalls |-> 0]

\* --------------------------------------------------------------------------
\* Actions of the middleware
\* --------------------------------------------------------------------------
\* authenticateRequest up to its first suspension (the await of axios.post)
\* or, when there is none, up to its return.
AuthenticateRequest(header) ==
    /\ \E prior \in {UndefinedObj, StaleAuth} :
        LET auth0 == InitialAuth(prior)
            token == extractToken(header)
        IN  IF ~TruthyStr(token)
            THEN /\ served = NoObservation
                 /\ served' = Returned(header, token, "none", 0, "no-token",
                                       UndefinedObj, authenticateRequestNoToken(auth0))
                 /\ UNCHANGED <<tokenCache, writtenAt, inflight>>
            ELSE IF detectTokenType(token) = "sanctum"
            THEN LET look == getCachedValidation(tokenCache, token, now)
                 IN  IF look.result # UndefinedObj
                     THEN LET v == validateSanctumTokenCached(token, look.result)
                          IN  /\ served = NoObservation
                              /\ served' = Returned(header, token, "sanctum", 0,
                                     v.cause, v.identity,
                                     authenticateRequestSettle(auth0, v))
                              /\ tokenCache' = look.cache
                              /\ UNCHANGED <<writtenAt, inflight>>
                     ELSE /\ BagCardinality(inflight) < MaxReqs
                          /\ tokenCache' = look.cache
                          /\ writtenAt' = Restrict(writtenAt, DOMAIN look.cache)
                          /\ inflight' = inflight (+)
                                SetToBag({Suspended(header, token, auth0, look.found)})
                          /\ UNCHANGED served
            ELSE /\ served = NoObservation
                 /\ \E out \in JwtOutcomes :
                      LET v == validateJWTToken(token, out)
                      IN  served' = Returned(header, token, "jwt", 0, v.cause,
                                             v.identity,
                                             authenticateRequestSettle(auth0, v))
                 /\ UNCHANGED <<tokenCache, writtenAt, inflight>>
    /\ cleared' = IF extractToken(header) = cleared THEN UndefinedStr ELSE cleared
    /\ UNCHANGED <<now, detectVars, gatewayVars, sweepTimer>>

\* The await of axios.post of the suspended invocation q settles, and
\* authenticateRequest runs to its return.
AuthorityResponds(q, response) ==
    /\ BagIn(q, inflight)
    /\ served = NoObservation
    /\ LET v == validateSanctumTokenResume(tokenCache, q.token, now, response)
       IN  /\ tokenCache' = v.cache
           /\ writtenAt' = IF v.cache = tokenCache THEN writtenAt
                           ELSE MapSet(writtenAt, getCacheKey(q.token), now)
           /\ served' = Returned(q.header, q.token, "sanctum", q.calls, v.cause,
                                 v.identity, authenticateRequestSettle(q.auth, v))
    /\ inflight' = inflight (-) SetToBag({q})
    /\ UNCHANGED <<now, cleared, detectVars, gatewayVars, sweepTimer>>

\* clearTokenCache(token)
ClearTokenCache(token) ==
    /\ tokenCache' = MapDelete(tokenCache, getCacheKey(token))
    /\ writtenAt' = Restrict(writtenAt, DOMAIN tokenCache')
    /\ UNCHANGED <<now, inflight, served, cleared, detectVars, gatewayVars, sweepTimer>>

\* The documented use of clearTokenCache: the credential is revoked (logout)
\* and clearTokenCache(token) is called to force its revalidation. cleared
\* remembers the credential until a request presents it again.
ClearTokenCacheOnLogout(token) ==
    /\ tokenCache' = MapDelete(tokenCache, getCacheKey(token))
    /\ writtenAt' = Restrict(writtenAt, DOMAIN tokenCache')
    /\ cleared' = token
    /\ UNCHANGED <<now, inflight, served, detectVars, gatewayVars, sweepTimer>>

\* The mutant of cleanExpiredCache that also removes the entries that
\* expire at this very instant.
cleanExpiredCacheAtExpiry(cache, t) ==
    [k \in { x \in DOMAIN cache : ~(t >= cache[x].expiresAt) } |-> cache[k]]

\* The entries cleanExpiredCache keeps.
cleanExpiredCache(cache, t) ==
    [k \in { x \in DOMAIN cache : ~(t > cache[x].expiresAt) } |-> cache[k]]

\* cleanExpiredCache(), from the interval timer or a direct call.
CleanExpiredCache ==
    /\ tokenCache' = cleanExpiredCache(tokenCache, now)
    /\ writtenAt' = Restrict(writtenAt, DOMAIN tokenCache')
    /\ UNCHANGED <<now, inflight, served, cleared, detectVars, gatewayVars, sweepTimer>>

\* The value cleanExpiredCache returns: the number of entries it deleted.
cleanExpiredCacheCleaned(cache, t) ==
    Cardinality({ x \in DOMAIN cache : t > cache[x].expiresAt })

\* The period of the setInterval that calls cleanExpiredCache.
SweepIntervalMs == 5 * 60 * 1000

\* The mutant of setIntervalNext whose timer skips every other period.
setIntervalNextSkips(due) == due + 2 * SweepIntervalMs

\* setInterval: when the timer that was due at due fires next.
setIntervalNext(due) == due + SweepIntervalMs

\* The instants the clock visits when the timer is followed: as Instants,
\* one period further.
SweepInstants ==
    { k * CacheTtlMs + j : k \in 0..(MaxPeriods + 1), j \in {-1, 0, 1} } \ {-1}

\* The interval timer fires: its callback calls cleanExpiredCache() and
\* drops the value it returns.
TimerFires ==
    /\ now = sweepTimer.due
    /\ tokenCache' = cleanExpiredCache(tokenCache, now)
    /\ writtenAt' = Restrict(writtenAt, DOMAIN tokenCache')
    /\ sweepTimer' = [due |-> setIntervalNext(sweepTimer.due),
                      cleaned |-> cleanExpiredCacheCleaned(tokenCache, now)]
    /\ UNCHANGED <<now, inflight, served, cleared, detectVars, gatewayVars>>

\* Time passes, up to the instant the interval timer is due.
TimerTick(t) ==
    /\ t > now
    /\ t <= sweepTimer.due
    /\ now' = t
    /\ UNCHANGED <<tokenCache, writtenAt, inflight, served, cleared, sweepTimer,
                   detectVars, gatewayVars>>

\* Time passes.
Tick(t) ==
    /\ t > now
    /\ now' = t
    /\ UNCHANGED <<tokenCache, writtenAt, inflight, served, cleared, detectVars,
                   gatewayVars, sweepTimer>>

\* The returned invocation has been looked at. An invocation returns into
\* a free slot, so every return is a step that changes served; Observe is
\* enabled whenever the slot is taken, and no interleaving of the program is
\* lost.
Observe ==
    /\ served # NoObservation
    /\ served' = NoObservation
    /\ UNCHANGED <<now, tokenCache, writtenAt, inflight, cleared, detectVars,
                   gatewayVars, sweepTimer>>

AuthInit ==
    /\ now = 0
    /\ tokenCache = << >>
    /\ writtenAt = << >>
    /\ inflight = EmptyBag
    /\ served = NoObservation
    /\ cleared = UndefinedStr
    /\ sweepTimer = [due |-> SweepIntervalMs, cleaned |-> 0]

\* --------------------------------------------------------------------------
\* detectTokenType on its own
\* --------------------------------------------------------------------------
Alphabet == {"|", "a", "."}

\* The strings over Alphabet of length at most n.
StringsUpTo(n) == UNION { [1..k -> Alphabet] : k \in 0..n }

\* The guards have been handed nothing.
NoGuard == [called |-> FALSE]

DetectIdle ==
    /\ dtInput = << >>
    /\ dtSeen = {}
    /\ guardInput = NoGuard
    /\ guardResult = NoGuard

DetectInit ==
    /\ dtInput \in StringsUpTo(MaxLen)
    /\ dtSeen = {}
    /\ guardInput = NoGuard
    /\ guardResult = NoGuard

\* One call detectTokenType(dtInput).
Detect ==
    /\ dtSeen' = dtSeen \cup {detectTokenType(dtInput)}
    /\ UNCHANGED <<dtInput, guardInput, guardResult, authVars, gatewayVars>>

\* --------------------------------------------------------------------------
\* requireAuth and requireRole on their own
\* --------------------------------------------------------------------------
\* Array.prototype.includes
JsArrayIncludes(list, v) == \E i \in DOMAIN list : list[i] = v

\* What a guard did: the status it answered with (0: it sent no answer) and
\* the number of times it called next().
GuardPassed == [status |-> 0, nextCalls |-> 1]

GuardRejected(status) == [status |-> status, nextCalls |-> 0]

\* requireAuth
requireAuth(auth) ==
    IF auth = UndefinedObj \/ ~auth.authenticated
    THEN GuardRejected(401)
    ELSE GuardPassed

\* The middleware requireRole(allowedRoles) returns, applied to a request.
requireRole(allowedRoles, auth) ==
    IF auth = UndefinedObj \/ ~auth.authenticated
    THEN GuardRejected(401)
    ELSE LET user == auth.user
             role == IF user = UndefinedObj THEN UndefinedVal ELSE user.role
             first == IF user = UndefinedObj THEN UndefinedVal
                      ELSE IF user.roles = UndefinedStr \/ user.roles = <<>>
                      THEN UndefinedVal
                      ELSE user.roles[1]
             userRole == JsOr(role, first)
         IN  IF ~TruthyVal(userRole) \/ ~JsArrayIncludes(allowedRoles, userRole)
             THEN GuardRejected(403)
             ELSE GuardPassed

\* The identities the guards are tried on: each way of carrying, or not
\* carrying, a role and a list of roles.
GuardUsers ==
    { [id |-> "7", email |-> "a@x", role |-> r, roles |-> rs] :
        r \in {UndefinedVal, "", "ADMIN", "USER"},
        rs \in {UndefinedStr, <<>>, <<"ADMIN">>, <<"USER">>, <<"USER", "ADMIN">>} }

\* The req.auth the guards are tried on: none, the two the middleware
\* leaves, and an authenticated one without user.
GuardAuths ==
    {UndefinedObj, Unauthenticated}
    \cup { [authenticated |-> TRUE, user |-> u, token |-> TokJwt, tokenType |-> "jwt"] :
             u \in GuardUsers \cup {UndefinedObj} }

AllowedRoleLists == {<<>>, <<"ADMIN">>, <<"USER">>, <<"OPS", "ADMIN">>}

GuardInit ==
    /\ dtInput = << >>
    /\ dtSeen = {}
    /\ guardInput \in { [called |-> TRUE, auth |-> a, allowedRoles |-> l] :
                          a \in GuardAuths, l \in AllowedRoleLists }
    /\ guardResult = NoGuard

\* requireAuth and requireRole(allowedRoles) are each applied to the request.
Guard ==
    /\ guardInput # NoGuard
    /\ guardResult = NoGuard
    /\ guardResult' = [called |-> TRUE,
                       requireAuth |-> requireAuth(guardInput.auth),
                       requireRole |-> requireRole(guardInput.allowedRoles,
                                                   guardInput.auth)]
    /\ UNCHANGED <<guardInput, dtInput, dtSeen, authVars, gatewayVars>>

\* --------------------------------------------------------------------------
\* Startup of the server module
\* --------------------------------------------------------------------------
\* The names of SUBGRAPH_CONFIG.
Services == {"autentificacion", "despacho"}

\* How apolloServer.start() can settle: resolved, rejected because subgraphs
\* could not be reached, rejected by an internal error of the composition.
StartOutcomes == {"ok", "connectivity", "fatal"}

\* The mutant of startupPromise whose .catch handler leaves serverStarted
\* as it was.
startupPromiseStaysDown(outcome) ==
    IF outcome = "ok"
    THEN [serverStarted |-> TRUE, schemaReady |-> TRUE]
    ELSE [serverStarted |-> FALSE, schemaReady |-> FALSE]

\* The mutant of startupPromise whose .then handler marks the schema ready
\* without marking the server started.
startupPromiseThenOmitsStarted(outcome) ==
    IF outcome = "ok"
    THEN [serverStarted |-> FALSE, schemaReady |-> TRUE]
    ELSE [serverStarted |-> TRUE, schemaReady |-> FALSE]

\* The flags after the .then / .catch handlers attached to
\* apolloServer.start() have run.
startupPromise(outcome) ==
    IF outcome = "ok"
    THEN [serverStarted |-> TRUE, schemaReady |-> TRUE]
    ELSE [serverStarted |-> TRUE, schemaReady |-> FALSE]

\* The mutant of RouteStatus whose /health answers by the readiness of the
\* schema.
RouteStatusNeedsSchema(path, routes) ==
    IF path = "/health" THEN (IF routes THEN 200 ELSE 503)
    ELSE IF path = "/graphql" /\ routes THEN 200
    ELSE 404

\* The status the express app answers a GET with.
RouteStatus(path, routes) ==
    IF path = "/health" THEN 200
    ELSE IF path = "/graphql" /\ routes THEN 200
    ELSE 404

GatewayInit ==
    /\ phase = "starting"
    /\ serverStarted = FALSE
    /\ schemaReady = FALSE
    /\ graphqlRoutes = FALSE
    /\ startOutcome = "pending"
    /\ up = {}
    /\ polls = 0
    /\ recomposed = FALSE
    /\ lastResponse = [path |-> "none", status |-> 0]

\* A subgraph service comes up or goes down.
ServiceChanges(s) ==
    /\ up' = IF s \in up THEN up \ {s} ELSE up \cup {s}
    /\ UNCHANGED <<phase, serverStarted, schemaReady, graphqlRoutes, startOutcome,
                   polls, recomposed, lastResponse, authVars, detectVars, healthVars>>

\* apolloServer.start() settles and its .then or .catch handler runs.
StartSettles(outcome) ==
    /\ phase = "starting"
    /\ outcome = "ok" => up = Services
    /\ outcome = "connectivity" => up # Services
    /\ LET flags == startupPromise(outcome)
       IN  /\ serverStarted' = flags.serverStarted
           /\ schemaReady' = flags.schemaReady
    /\ startOutcome' = outcome
    /\ phase' = "settled"
    /\ UNCHANGED <<graphqlRoutes, up, polls, recomposed, lastResponse,
                   authVars, detectVars, healthVars>>

\* The mutant of Setup that calls httpServer.listen only when the schema is
\* ready.
SetupListensOnlyWithSchema(thrown) ==
    /\ phase = "settled"
    /\ graphqlRoutes' = schemaReady
    /\ phase' = IF thrown = "none" /\ schemaReady THEN "listening"
                ELSE IF thrown = "FATAL" THEN "exited"
                ELSE "stalled"
    /\ UNCHANGED <<serverStarted, schemaReady, startOutcome, up, polls, recomposed,
                   lastResponse, authVars, detectVars, healthVars>>

\* The body of startupPromise.then: the /graphql routes when the schema is
\* ready, the WebSocket server, the 404 and error handlers, httpServer.listen.
\* thrown is what the body throws, if anything; the .catch that follows
\* exits the process on a message with FATAL or CRITICAL in it.
Setup(thrown) ==
    /\ phase = "settled"
    /\ graphqlRoutes' = schemaReady
    /\ phase' = IF thrown = "none" THEN "listening"
                ELSE IF thrown = "FATAL" THEN "exited"
                ELSE "stalled"
    /\ UNCHANGED <<serverStarted, schemaReady, startOutcome, up, polls, recomposed,
                   lastResponse, authVars, detectVars, healthVars>>

\* One polling cycle of IntrospectAndCompose (pollIntervalInMs): it composes
\* the schema when every subgraph answers. The server module registers no
\* callback on it.
EnginePoll ==
    /\ phase \in {"listening", "stalled"}
    /\ polls < MaxPolls
    /\ polls' = polls + 1
    /\ recomposed' = (recomposed \/ up = Services)
    /\ UNCHANGED <<phase, serverStarted, schemaReady, graphqlRoutes, startOutcome,
                   up, lastResponse, authVars, detectVars, healthVars>>

\* A GET request on the listening server.
HttpGet(path) ==
    /\ phase = "listening"
    /\ lastResponse' = [path |-> path, status |-> RouteStatus(path, graphqlRoutes)]
    /\ UNCHANGED <<phase, serverStarted, schemaReady, graphqlRoutes, startOutcome,
                   up, polls, recomposed, authVars, detectVars, healthVars>>

\* --------------------------------------------------------------------------
\* The service checker (ResilientServiceChecker) and GET /health/detailed
\* --------------------------------------------------------------------------
\* SUBGRAPH_CONFIG in its configured order.
SUBGRAPH_CONFIG == <<"autentificacion", "despacho">>

\* How the fetch of one probe settles: a response with a success status, a
\* response with another status, the abort of the 5 s timer, a connection
\* error.
ProbeOutcomes == {"ok", "status", "abort", "error"}

\* No GET /health/detailed has been answered yet.
NoDetailed == [answer |-> [status |-> 0], probed |-> <<>>]

\* checkServiceHealth up to its first await: the two local lists are empty
\* and the fetch of the first configured endpoint is in flight. probed is
\* the history of the outcomes of the probes of this run.
checkServiceHealthStart ==
    [i |-> 1, available |-> <<>>, unavailable |-> <<>>, probed |-> <<>>]

\* The mutant of checkServiceHealthProbe that does not look at response.ok.
checkServiceHealthProbeAnyResponse(q, avSet, unSet, outcome) ==
    LET name == SUBGRAPH_CONFIG[q.i]
    IN  IF outcome \in {"abort", "error"}
        THEN [threw |-> FALSE, i |-> q.i + 1,
              available |-> q.available,
              unavailable |-> Append(q.unavailable, name),
              probed |-> Append(q.probed, outcome),
              recovered |-> "none",
              availableServices |-> avSet,
              unavailableServices |-> unSet \cup {name}]
        ELSE [threw |-> FALSE, i |-> q.i + 1,
              available |-> Append(q.available, name),
              unavailable |-> q.unavailable,
              probed |-> Append(q.probed, outcome),
              recovered |-> IF name \in unSet THEN name ELSE "none",
              availableServices |-> avSet \cup {name},
              unavailableServices |-> unSet \ {name}]

\* The mutant of checkServiceHealthProbe without the try/catch around the
\* fetch: an abort or a connection error leaves checkServiceHealth.
checkServiceHealthProbeNoCatch(q, avSet, unSet, outcome) ==
    LET name == SUBGRAPH_CONFIG[q.i]
    IN  IF outcome \in {"abort", "error"}
        THEN [threw |-> TRUE, i |-> q.i,
              available |-> q.available,
              unavailable |-> q.unavailable,
              probed |-> Append(q.probed, outcome),
              recovered |-> "none",
              availableServices |-> avSet,
              unavailableServices |-> unSet]
        ELSE IF outcome = "ok"
        THEN [threw |-> FALSE, i |-> q.i + 1,
              available |-> Append(q.available, name),
              unavailable |-> q.unavailable,
              probed |-> Append(q.probed, outcome),
              recovered |-> IF name \in unSet THEN name ELSE "none",
              availableServices |-> avSet \cup {name},
              unavailableServices |-> unSet \ {name}]
        ELSE [threw |-> FALSE, i |-> q.i + 1,
              available |-> q.available,
              unavailable |-> Append(q.unavailable, name),
              probed |-> Append(q.probed, outcome),
              recovered |-> "none",
              availableServices |-> avSet,
              unavailableServices |-> unSet \cup {name}]

\* The mutant of checkServiceHealthProbe that logs a recovery on every
\* successful probe, whether or not the service was in unavailableServices.
checkServiceHealthProbeLogsEverySuccess(q, avSet, unSet, outcome) ==
    LET name == SUBGRAPH_CONFIG[q.i]
    IN  IF outcome = "ok"
        THEN [threw |-> FALSE, i |-> q.i + 1,
              available |-> Append(q.available, name),
              unavailable |-> q.unavailable,
              probed |-> Append(q.probed, outcome),
              recovered |-> name,
              availableServices |-> avSet \cup {name},
              unavailableServices |-> unSet \ {name}]
        ELSE [threw |-> FALSE, i |-> q.i + 1,
              available |-> q.available,
              unavailable |-> Append(q.unavailable, name),
              probed |-> Append(q.probed, outcome),
              recovered |-> "none",
              availableServices |-> avSet,
              unavailableServices |-> unSet \cup {name}]

\* The mutant of checkServiceHealthProbe that builds the lists of a run from
\* the sets all the runs share instead of from the run's own arrays.
checkServiceHealthProbeSharedLists(q, avSet, unSet, outcome) ==
    LET name == SUBGRAPH_CONFIG[q.i]
        av == IF outcome = "ok" THEN avSet \cup {name} ELSE avSet
        un == IF outcome = "ok" THEN unSet \ {name} ELSE unSet \cup {name}
    IN  [threw |-> FALSE, i |-> q.i + 1,
         available |-> SelectSeq(SUBGRAPH_CONFIG, LAMBDA n : n \in av),
         unavailable |-> SelectSeq(SUBGRAPH_CONFIG, LAMBDA n : n \in un),
         probed |-> Append(q.probed, outcome),
         recovered |-> IF outcome = "ok" /\ name \in unSet THEN name ELSE "none",
         availableServices |-> av,
         unavailableServices |-> un]

\* One turn of the loop of checkServiceHealth after its await: the fetch of
\* endpoint q.i has settled with outcome. A fetch that throws (abort,
\* connection error) lands in the catch block; a response is looked at
\* through response.ok. avSet and unSet are the two sets of the checker.
checkServiceHealthProbe(q, avSet, unSet, outcome) ==
    LET name == SUBGRAPH_CONFIG[q.i]
    IN  IF outcome \in {"abort", "error"}
        THEN [threw |-> FALSE, i |-> q.i + 1,
              available |-> q.available,
              unavailable |-> Append(q.unavailable, name),
              probed |-> Append(q.probed, outcome),
              recovered |-> "none",
              availableServices |-> avSet,
              unavailableServices |-> unSet \cup {name}]
        ELSE IF outcome = "ok"
        THEN [threw |-> FALSE, i |-> q.i + 1,
              available |-> Append(q.available, name),
              unavailable |-> q.unavailable,
              probed |-> Append(q.probed, outcome),
              recovered |-> IF name \in unSet THEN name ELSE "none",
              availableServices |-> avSet \cup {name},
              unavailableServices |-> unSet \ {name}]
        ELSE [threw |-> FALSE, i |-> q.i + 1,
              available |-> q.available,
              unavailable |-> Append(q.unavailable, name),
              probed |-> Append(q.probed, outcome),
              recovered |-> "none",
              availableServices |-> avSet,
              unavailableServices |-> unSet \cup {name}]

\* The value checkServiceHealth returns once the loop has ended.
checkServiceHealthResult(step) ==
    [availableServices |-> step.available,
     unavailableServices |-> step.unavailable,
     totalConfigured |-> Len(SUBGRAPH_CONFIG)]

\* The mutant of healthDetailedResponse that reports the server flag as
\* readiness and any failure as partial health.
healthDetailedResponseFromStarted(healthStatus, ready, started) ==
    [status |-> 200,
     schemaReady |-> ready,
     serverStarted |-> started,
     available |-> healthStatus.availableServices,
     unavailable |-> healthStatus.unavailableServices,
     totalConfigured |-> healthStatus.totalConfigured,
     allHealthy |-> Len(healthStatus.unavailableServices) = 0,
     partiallyHealthy |-> Len(healthStatus.unavailableServices) > 0,
     readyForRequests |-> started]

\* The body GET /health/detailed answers with (status 200).
healthDetailedResponse(healthStatus, ready, started) ==
    [status |-> 200,
     schemaReady |-> ready,
     serverStarted |-> started,
     available |-> healthStatus.availableServices,
     unavailable |-> healthStatus.unavailableServices,
     totalConfigured |-> healthStatus.totalConfigured,
     allHealthy |-> Len(healthStatus.unavailableServices) = 0,
     partiallyHealthy |-> Len(healthStatus.availableServices) > 0,
     readyForRequests |-> ready]

\* The answer of the catch block of the GET /health/detailed handler.
healthDetailedError == [status |-> 500]

\* getStatus(): the two persistent sets of the service checker and the
\* number of configured endpoints. Array.from lists a set in insertion
\* order; the lists are kept as sets here, the order being of no concern.
getStatus ==
    [availableServices |-> availableServices,
     unavailableServices |-> unavailableServices,
     totalConfigured |-> Len(SUBGRAPH_CONFIG)]

HealthInit ==
    /\ runs = EmptyBag
    /\ availableServices = {}
    /\ unavailableServices = {}
    /\ detailed = NoDetailed
    /\ lastProbe = [n \in {SUBGRAPH_CONFIG[i] : i \in DOMAIN SUBGRAPH_CONFIG} |-> "none"]
    /\ recoveredLog = "none"

\* A GET /health/detailed request arrives: its handler calls
\* checkServiceHealth, which suspends on the fetch of the first endpoint.
HealthDetailed ==
    /\ phase = "listening"
    /\ BagCardinality(runs) < MaxRuns
    /\ runs' = runs (+) SetToBag({checkServiceHealthStart})
    /\ UNCHANGED <<availableServices, unavailableServices, detailed, lastProbe,
                   recoveredLog, phase,
                   serverStarted, schemaReady, graphqlRoutes, startOutcome, up,
                   polls, recomposed, lastResponse, authVars, detectVars>>

\* The fetch the run q is suspended on settles. The loop of checkServiceHealth
\* goes on to the fetch of the next endpoint or, after the last one, returns
\* to the handler, which answers.
ProbeSettles(q, outcome) ==
    /\ BagIn(q, runs)
    /\ outcome \in {"ok", "status"} => SUBGRAPH_CONFIG[q.i] \in up
    /\ outcome = "error" => SUBGRAPH_CONFIG[q.i] \notin up
    /\ lastProbe' = [lastProbe EXCEPT ![SUBGRAPH_CONFIG[q.i]] =
                        IF outcome = "ok" THEN "ok" ELSE "failed"]
    /\ LET step == checkServiceHealthProbe(q, availableServices,
                                           unavailableServices, outcome)
       IN  /\ availableServices' = step.availableServices
           /\ unavailableServices' = step.unavailableServices
           /\ recoveredLog' = step.recovered
           /\ IF step.threw
              THEN /\ runs' = runs (-) SetToBag({q})
                   /\ detailed' = [answer |-> healthDetailedError,
                                   probed |-> step.probed]
              ELSE IF step.i > Len(SUBGRAPH_CONFIG)
              THEN /\ runs' = runs (-) SetToBag({q})
                   /\ detailed' =
                        [answer |-> healthDetailedResponse(
                                        checkServiceHealthResult(step),
                                        schemaReady, serverStarted),
                         probed |-> step.probed]
              ELSE /\ runs' = (runs (-) SetToBag({q})) (+)
                        SetToBag({[i |-> step.i, available |-> step.available,
                                   unavailable |-> step.unavailable,
                                   probed |-> step.probed]})
                   /\ UNCHANGED detailed
    /\ UNCHANGED <<phase, serverStarted, schemaReady, graphqlRoutes, startOutcome,
                   up, polls, recomposed, lastResponse, authVars, detectVars>>

\* --------------------------------------------------------------------------
\* Specifications
\* --------------------------------------------------------------------------
Init == AuthInit /\ DetectIdle /\ GatewayInit /\ HealthInit

\* The authentication middleware.
Next ==
    \/ \E h \in Headers : AuthenticateRequest(h)
    \/ \E q \in BagToSet(inflight), response \in AuthorityResponses :
          AuthorityResponds(q, response)
    \/ \E t \in Tokens : ClearTokenCache(t)
    \/ CleanExpiredCache
    \/ \E t \in Instants : Tick(t)
    \/ Observe

Spec == Init /\ [][Next]_vars

\* The middleware and a caller that revokes credentials, at one instant.
RevocationNext ==
    \/ \E h \in Headers : AuthenticateRequest(h)
    \/ \E q \in BagToSet(inflight), response \in AuthorityResponses :
          AuthorityResponds(q, response)
    \/ \E t \in SanctumTokens : ClearTokenCacheOnLogout(t)
    \/ Observe

RevocationSpec == Init /\ [][RevocationNext]_vars

\* The middleware under requests with Sanctum credentials, with the clock
\* and the interval timer of the sweep.
SweepNext ==
    \/ \E t \in SanctumTokens : AuthenticateRequest(Bearer \o <<" ">> \o t)
    \/ \E q \in BagToSet(inflight), response \in AuthorityResponses :
          AuthorityResponds(q, response)
    \/ TimerFires
    \/ \E t \in SweepInstants : TimerTick(t)
    \/ Observe

SweepSpec == Init /\ [][SweepNext]_vars

\* detectTokenType applied to every string of the bounded set.
DetectNext == Detect

DetectSpecInit == AuthInit /\ DetectInit /\ GatewayInit /\ HealthInit

DetectSpec == DetectSpecInit /\ [][DetectNext]_vars

\* requireAuth and requireRole applied to every request of the bounded set.
GuardNext == Guard

GuardSpecInit == AuthInit /\ GuardInit /\ GatewayInit /\ HealthInit

GuardSpec == GuardSpecInit /\ [][GuardNext]_vars

\* The startup chain, the composition engine and the operational endpoints.
GatewayNext ==
    \/ \E s \in Services : ServiceChanges(s)
    \/ \E outcome \in StartOutcomes : StartSettles(outcome)
    \/ \E thrown \in {"none", "Error", "FATAL"} : Setup(thrown)
    \/ EnginePoll
    \/ \E path \in {"/health", "/graphql", "/other"} : HttpGet(path)

GatewaySpec == Init /\ [][GatewayNext]_vars

\* The startup chain under the scheduling of the promise reactions: once
\* apolloServer.start() has settled, the reaction attached to startupPromise
\* runs.
GatewayFairSpec ==
    GatewaySpec /\ WF_vars(\E thrown \in {"none", "Error", "FATAL"} : Setup(thrown))

\* The startup chain, the operational endpoints and the service checker.
HealthNext ==
    \/ \E s \in Services : ServiceChanges(s)
    \/ \E outcome \in StartOutcomes : StartSettles(outcome)
    \/ \E thrown \in {"none", "Error", "FATAL"} : Setup(thrown)
    \/ \E path \in {"/health", "/graphql", "/other"} : HttpGet(path)
    \/ HealthDetailed
    \/ \E q \in BagToSet(runs), outcome \in ProbeOutcomes : ProbeSettles(q, outcome)

HealthSpec == Init /\ [][HealthNext]_vars

\* --------------------------------------------------------------------------
\* Vocabulary of the claims
\* --------------------------------------------------------------------------
\* An invocation for credential t returns in this step from a cache hit.
HitStep(t) ==
    /\ served = NoObservation
    /\ served' # NoObservation
    /\ served'.cause = "cache-hit"
    /\ served'.token = t

\* An invocation for credential t misses the cache in this step and suspends
\* on its call to the authority.
MissStep(t) ==
    \E q \in BagToSet(inflight') :
        /\ q.token = t
        /\ inflight' = inflight (+) SetToBag({q})

\* validateSanctumToken(t) looks the credential up in this step.
LookupStep(t) == HitStep(t) \/ MissStep(t)

\* The suspended invocation q returns in this step.
ReturnStep(q) ==
    /\ BagIn(q, inflight)
    /\ inflight' = inflight (-) SetToBag({q})
    /\ served = NoObservation
    /\ served' # NoObservation

\* The ways the remote validation fails.
RemoteFailures ==
    {"ECONNREFUSED", "ECONNABORTED", "graphql-errors", "no-user-data", "empty-id"}

\* The ways the local validation fails.
LocalFailures == {"TokenExpiredError", "JsonWebTokenError", "Error"}

\* The credential contains the separator character.
HasSeparator(token) == "|" \in { token[i] : i \in 1..Len(token) }

\* The positions of the spaces of a header.
Spaces(h) == { i \in 1..Len(h) : h[i] = " " }

\* The header is missing, or is not the word Bearer, one space and a
\* non-empty credential without spaces.
MalformedHeader(h) ==
    \/ h = UndefinedStr
    \/ Cardinality(Spaces(h)) # 1
    \/ \E i \in Spaces(h) : SubSeq(h, 1, i - 1) # Bearer \/ i = Len(h)

\* --------------------------------------------------------------------------
\* Claims
\* --------------------------------------------------------------------------
\* C1 as stated: an entry written by cacheValidation at time T is returned
\* unchanged by every lookup at a time < T+300s and is a miss for every lookup
\* at a time >= T+300s, the lookup at exactly T+300s included.
C1_MissFromExpiryInstant ==
    [][\A t \in SanctumTokens :
        LET k == getCacheKey(t)
        IN  (LookupStep(t) /\ k \in DOMAIN tokenCache) =>
              /\ now < writtenAt[k] + CacheTtlMs =>
                    HitStep(t) /\ served'.auth.user = tokenCache[k].userData
              /\ now >= writtenAt[k] + CacheTtlMs => MissStep(t)]_vars

\* C1 amended: an entry written by cacheValidation at time T is returned
\* unchanged by every lookup at a time <= T+300s (the lookup at exactly
\* T+300s is still a hit) and is a miss for every lookup at a time > T+300s.
C1_HitThroughExpiryInstant ==
    [][\A t \in SanctumTokens :
        LET k == getCacheKey(t)
        IN  (LookupStep(t) /\ k \in DOMAIN tokenCache) =>
              /\ now <= writtenAt[k] + CacheTtlMs =>
                    /\ HitStep(t)
                    /\ served'.auth.user = tokenCache[k].userData
                    /\ tokenCache' = tokenCache
              /\ now > writtenAt[k] + CacheTtlMs =>
                    MissStep(t) /\ k \notin DOMAIN tokenCache']_vars

\* A lookup at exactly T+300s has hit.
C1_Witness ==
    /\ served # NoObservation
    /\ served.cause = "cache-hit"
    /\ getCacheKey(served.token) \in DOMAIN writtenAt
    /\ now = writtenAt[getCacheKey(served.token)] + CacheTtlMs

\* C2: under every interleaving of lookups, writes, clearTokenCache and
\* sweeps, a lookup returns an identity only from an entry that is in the
\* cache with now <= expiresAt, and returns that entry's identity.
C2_NoExpiredHit ==
    [][\A t \in SanctumTokens :
        HitStep(t) =>
            /\ getCacheKey(t) \in DOMAIN tokenCache
            /\ ~(now > tokenCache[getCacheKey(t)].expiresAt)
            /\ served'.identity = tokenCache[getCacheKey(t)].userData]_vars

\* A lookup has found an expired entry that no sweep had removed, and missed.
C2_Witness ==
    \E q \in BagToSet(inflight) : q.found = "expired"

\* C3: a validateSanctumToken call made inside the TTL window that an earlier
\* validation of the same credential opened (its entry was written at T, has
\* not been cleared, and now < T+300s) is served from the cache and issues no
\* call to the authority; no invocation issues more than one call, so the
\* two calls together issue at most one.
C3_SecondCallFromCache ==
    /\ [](/\ served # NoObservation => served.calls <= 1
          /\ \A q \in BagToSet(inflight) : q.calls = 1)
    /\ [][\A t \in SanctumTokens :
            LET k == getCacheKey(t)
            IN  (/\ LookupStep(t)
                 /\ k \in DOMAIN writtenAt
                 /\ now < writtenAt[k] + CacheTtlMs) =>
                    /\ HitStep(t)
                    /\ served'.calls = 0
                    /\ inflight' = inflight
                    /\ served'.auth.authenticated]_vars

\* A second call, later than the first and inside its TTL window, has been
\* served from the cache without a call to the authority.
C3_Witness ==
    /\ served # NoObservation
    /\ served.cause = "cache-hit"
    /\ served.calls = 0
    /\ getCacheKey(served.token) \in DOMAIN writtenAt
    /\ now > writtenAt[getCacheKey(served.token)]
    /\ now < writtenAt[getCacheKey(served.token)] + CacheTtlMs

\* C4: a remote validation that fails (connection refused, timeout, errors
\* field, no validateToken data, empty id) leaves the token cache as it was
\* when the answer arrived, and a request whose credential has no entry
\* issues a call to the authority.
C4_NoNegativeCaching ==
    /\ [][\A q \in BagToSet(inflight) :
            (ReturnStep(q) /\ served'.cause \in RemoteFailures) =>
                tokenCache' = tokenCache]_vars
    /\ [][\A t \in SanctumTokens :
            (LookupStep(t) /\ getCacheKey(t) \notin DOMAIN tokenCache) =>
                \E q \in BagToSet(inflight') :
                    q.token = t /\ q.calls = 1 /\ MissStep(t)]_vars

\* A remote validation has failed and the credential has no cache entry.
C4_Witness ==
    /\ served # NoObservation
    /\ served.cause \in RemoteFailures
    /\ getCacheKey(served.token) \notin DOMAIN tokenCache

\* C5: whatever the outcome, authenticateRequest lets no Error escape, leaves
\* req.auth set, and has called next() exactly once, without an argument,
\* when it returns (and not before).
C5_NeverFailsTheRequest ==
    /\ served # NoObservation =>
          /\ ~served.escaped
          /\ served.nextCalls = 1
          /\ served.nextArg = UndefinedVal
          /\ "authenticated" \in DOMAIN served.auth
    /\ \A q \in BagToSet(inflight) :
          q.nextCalls = 0 /\ "authenticated" \in DOMAIN q.auth

\* A request whose authority call failed in transport has been continued.
C5_Witness ==
    /\ served # NoObservation
    /\ served.cause \in {"ECONNREFUSED", "ECONNABORTED"}
    /\ served.nextCalls = 1

\* C6: after any validator failure the AuthContext is exactly
\* {authenticated: false}, the same as for a request without a credential.
C6_FailuresIndistinguishable ==
    (served # NoObservation
        /\ served.cause \in RemoteFailures \cup LocalFailures \cup {"no-token"}) =>
        served.auth = Unauthenticated

\* An expired JWT has been turned away.
C6_Witness ==
    /\ served # NoObservation
    /\ served.cause = "TokenExpiredError"
    /\ served.auth = Unauthenticated

\* C7: a request whose Authorization header is missing or malformed gets
\* {authenticated: false}, runs no validator, issues no call, leaves the
\* cache unchanged and is continued.
C7_MalformedHeaderIsAnonymous ==
    /\ [](\A q \in BagToSet(inflight) : ~MalformedHeader(q.header))
    /\ [][(served = NoObservation /\ served' # NoObservation
            /\ MalformedHeader(served'.header)) =>
              /\ served'.auth = Unauthenticated
              /\ served'.validator = "none"
              /\ served'.calls = 0
              /\ served'.nextCalls = 1
              /\ ~served'.escaped
              /\ tokenCache' = tokenCache
              /\ inflight' = inflight]_vars

\* A request with the header "Bearer " (empty credential) has been continued
\* as anonymous.
C7_Witness ==
    /\ served # NoObservation
    /\ served.header = Bearer \o <<" ">>
    /\ served.auth = Unauthenticated
    /\ served.nextCalls = 1

\* C8: authenticated=true only when the validator chosen by the classifier
\* succeeded in this invocation; the context then carries that validator's
\* identity, the credential and the scheme tag of the credential, and nothing
\* of a req.auth that was there before.
C8_AuthenticatedOnlyByValidator ==
    (served # NoObservation /\ served.auth.authenticated) =>
        LET scheme == IF HasSeparator(served.token) THEN "sanctum" ELSE "jwt"
        IN  /\ served.validator = scheme
            /\ served.cause \in (IF scheme = "sanctum"
                                 THEN {"cache-hit", "authority-ok"}
                                 ELSE {"jwt-ok"})
            /\ scheme = "jwt" => served.calls = 0
            /\ served.auth = [authenticated |-> TRUE, user |-> served.identity,
                              token |-> served.token, tokenType |-> scheme]
            /\ served.token = SubSeq(served.header, Len(Bearer) + 2,
                                     Len(served.header))

\* A Sanctum credential has been authenticated by the authority.
C8_Witness ==
    /\ served # NoObservation
    /\ served.auth.authenticated
    /\ served.cause = "authority-ok"
    /\ served.auth.tokenType = "sanctum"

\* C9: detectTokenType answers 'sanctum' for every string with a '|' in it
\* (the string "|" included) and 'jwt' for every other string, and always
\* the same for the same string.
C9_ClassifierTotal ==
    /\ dtSeen \subseteq {IF HasSeparator(dtInput) THEN "sanctum" ELSE "jwt"}
    /\ Cardinality(dtSeen) <= 1

\* The string "|" has been classified as 'sanctum'.
C9_Witness ==
    /\ dtInput = <<"|">>
    /\ dtSeen = {"sanctum"}

\* C10: once the startup composition has failed on connectivity and a later
\* polling cycle of the engine has composed the schema, the gateway is READY:
\* schemaReady is true.
C10_DegradedBecomesReady ==
    (startOutcome = "connectivity" /\ recomposed) => schemaReady

C12_FatalStartIsNotAbsorbed ==
    startOutcome = "fatal" => ~(serverStarted /\ ~schemaReady)

\* --------------------------------------------------------------------------
\* Vocabulary of the claims on the service checker
\* --------------------------------------------------------------------------
\* The elements of a list.
ToSet(list) == { list[i] : i \in DOMAIN list }

\* The names of the endpoints, in their order in names, whose probe outcome
\* in probed is a success (wantOk) or is not (~wantOk).
RECURSIVE Picked(_, _, _)
Picked(names, probed, wantOk) ==
    IF names = <<>> \/ probed = <<>> THEN <<>>
    ELSE LET rest == Picked(Tail(names), Tail(probed), wantOk)
         IN  IF (Head(probed) = "ok") = wantOk
             THEN <<Head(names)>> \o rest
             ELSE rest

\* The endpoints the run q has no result for yet.
Unsettled(q) == ToSet(SUBGRAPH_CONFIG) \ (ToSet(q.available) \cup ToSet(q.unavailable))

\* The endpoints whose fetch the suspended run q has in flight: the loop of
\* checkServiceHealth awaits the fetch of one endpoint at a time.
Probing(q) == {SUBGRAPH_CONFIG[q.i]}

\* C13: the result of a checkServiceHealth run lists in availableServices
\* exactly the endpoints whose probe answered with a success status and in
\* unavailableServices exactly the others (other status, abort, connection
\* error), every configured name once, with totalConfigured the number of
\* configured endpoints, whatever other runs were doing meanwhile.
C13_ResultPartitionsEndpoints ==
    detailed.answer.status = 200 =>
        LET a == detailed.answer
            n == Len(SUBGRAPH_CONFIG)
            reached == { SUBGRAPH_CONFIG[i] :
                           i \in { j \in 1..n : detailed.probed[j] = "ok" } }
        IN  /\ Len(detailed.probed) = n
            /\ ToSet(a.available) = reached
            /\ ToSet(a.unavailable) = ToSet(SUBGRAPH_CONFIG) \ reached
            /\ Cardinality(ToSet(a.available)) = Len(a.available)
            /\ Cardinality(ToSet(a.unavailable)) = Len(a.unavailable)
            /\ Len(a.available) + Len(a.unavailable) = n
            /\ a.totalConfigured = n

\* A run whose first probe was aborted by the timer and whose second probe
\* succeeded has returned while another run was in progress.
C13_Witness ==
    /\ detailed.answer.status = 200
    /\ detailed.probed = <<"abort", "ok">>
    /\ detailed.answer.available = <<"despacho">>
    /\ BagCardinality(runs) > 0

\* C14: within a checkServiceHealth run no probe waits for another: every
\* endpoint the run has no result for yet has its fetch in flight.
C14_ProbesIndependent ==
    \A q \in BagToSet(runs) : Unsettled(q) \subseteq Probing(q)

\* C15: checkServiceHealth never throws. Every settling of a fetch, failed or
\* not, either moves the run on to its next endpoint or ends it with a
\* result that GET /health/detailed answers with status 200; a probe that
\* failed (other status, abort, connection error) is in the unavailable list;
\* and no answer has status 500.
C15_ProbesNeverThrow ==
    /\ [](/\ detailed.answer.status # 500
          /\ detailed.answer.status = 200 =>
                \A i \in DOMAIN detailed.probed :
                    detailed.probed[i] # "ok" =>
                        SUBGRAPH_CONFIG[i] \in ToSet(detailed.answer.unavailable)
          /\ \A q \in BagToSet(runs) :
                /\ q.i \in 1..Len(SUBGRAPH_CONFIG)
                /\ Len(q.probed) = q.i - 1
                /\ \A i \in DOMAIN q.probed :
                      q.probed[i] # "ok" => SUBGRAPH_CONFIG[i] \in ToSet(q.unavailable))
    /\ [][\A q \in BagToSet(runs), outcome \in ProbeOutcomes :
            ProbeSettles(q, outcome) =>
                IF q.i = Len(SUBGRAPH_CONFIG)
                THEN /\ detailed'.answer.status = 200
                     /\ detailed'.probed = Append(q.probed, outcome)
                     /\ BagCardinality(runs') = BagCardinality(runs) - 1
                ELSE /\ \E r \in BagToSet(runs') :
                          r.i = q.i + 1 /\ r.probed = Append(q.probed, outcome)
                     /\ BagCardinality(runs') = BagCardinality(runs)]_vars

\* A run whose probes failed in two different ways (connection error, then
\* abort by the timer) has been answered with status 200.
C15_Witness ==
    /\ detailed.answer.status = 200
    /\ detailed.probed = <<"error", "abort">>
    /\ detailed.answer.unavailable = SUBGRAPH_CONFIG

\* C16: GET /health is answered with status 200 whenever the server listens,
\* whatever schemaReady, serverStarted, the registered routes and the probe
\* results are.
C16_HealthAlwaysOk ==
    /\ lastResponse.path = "/health" => lastResponse.status = 200
    /\ phase = "listening" => RouteStatus("/health", graphqlRoutes) = 200

\* GET /health has answered 200 on a gateway without schema whose last probe
\* run found an endpoint unavailable.
C16_Witness ==
    /\ lastResponse = [path |-> "/health", status |-> 200]
    /\ ~schemaReady
    /\ detailed.answer.status = 200
    /\ detailed.answer.unavailable # <<>>

\* C17: an answer of GET /health/detailed carries the lists of one probe run
\* (the reachable endpoints of that run in available, the others in
\* unavailable, in configured order), totalConfigured the number of
\* configured endpoints, allHealthy exactly when unavailable is empty,
\* partiallyHealthy exactly when available is not empty, the two readiness
\* flags, and readyForRequests equal to schemaReady; with the first endpoint
\* unreachable and the second reachable it is available [second],
\* unavailable [first], allHealthy false, partiallyHealthy true.
C17_DetailedDerivedFromRun ==
    detailed.answer.status = 200 =>
        LET a == detailed.answer
        IN  /\ a.available = Picked(SUBGRAPH_CONFIG, detailed.probed, TRUE)
            /\ a.unavailable = Picked(SUBGRAPH_CONFIG, detailed.probed, FALSE)
            /\ a.totalConfigured = Len(SUBGRAPH_CONFIG)
            /\ a.allHealthy = (a.unavailable = <<>>)
            /\ a.partiallyHealthy = (a.available # <<>>)
            /\ a.schemaReady = schemaReady
            /\ a.serverStarted = serverStarted
            /\ a.readyForRequests = schemaReady
            /\ (detailed.probed[1] # "ok" /\ detailed.probed[2] = "ok") =>
                  /\ a.available = <<SUBGRAPH_CONFIG[2]>>
                  /\ a.unavailable = <<SUBGRAPH_CONFIG[1]>>
                  /\ ~a.allHealthy
                  /\ a.partiallyHealthy

\* The example: first endpoint unreachable, second reachable, on a gateway
\* whose schema is ready.
C17_Witness ==
    /\ detailed.answer.status = 200
    /\ detailed.probed = <<"error", "ok">>
    /\ detailed.answer.available = <<"despacho">>
    /\ detailed.answer.unavailable = <<"autentificacion">>
    /\ ~detailed.answer.allHealthy
    /\ detailed.answer.partiallyHealthy
    /\ detailed.answer.readyForRequests

\* C18: at no time are two checkServiceHealth runs in progress together.
C18_SingleRunInProgress ==
    BagCardinality(runs) <= 1

\* --------------------------------------------------------------------------
\* Vocabulary of the claims on racing validations
\* --------------------------------------------------------------------------
\* The authority's answer is one validateSanctumToken accepts.
Accepted(response) ==
    /\ response.transport = "ok"
    /\ ~response.errors
    /\ response.validateToken # UndefinedObj
    /\ TruthyVal(response.validateToken.id)

\* The invocations for credential t that are suspended on their call.
PendingFor(t, bag) == { q \in BagToSet(bag) : q.token = t }

\* C19: a validateSanctumToken invocation returns from a cache hit with no
\* call to the authority and from a miss with exactly one, never repeated;
\* every miss issues a call of its own even when a call for the same
\* credential is already in flight; and the settling of one call returns
\* one invocation only, the others staying suspended on their own calls.
C19_OneCallPerMiss ==
    /\ [](served # NoObservation =>
            /\ served.cause = "cache-hit" => served.calls = 0
            /\ (served.validator = "sanctum" /\ served.cause # "cache-hit") =>
                  served.calls = 1)
    /\ [](\A q \in BagToSet(inflight) : q.calls = 1)
    /\ [][\A t \in SanctumTokens :
            MissStep(t) =>
                /\ BagCardinality(inflight') = BagCardinality(inflight) + 1
                /\ served' = served]_vars
    /\ [][\A q \in BagToSet(inflight) :
            ReturnStep(q) =>
                /\ BagCardinality(inflight') = BagCardinality(inflight) - 1
                /\ served'.token = q.token
                /\ served'.calls = q.calls]_vars

\* Two invocations that presented the same uncached credential are both
\* suspended, each on a call of its own.
C19_Witness ==
    \E t \in SanctumTokens :
        /\ getCacheKey(t) \notin DOMAIN tokenCache
        /\ BagCardinality(inflight) = 2
        /\ \A q \in BagToSet(inflight) : q.token = t /\ q.calls = 1

\* C20 as stated: once every racing validation of a credential has completed,
\* the cache entry of the credential, if there is one, is the one written by
\* the validation that completed last.
C20_EntryOfLastCompleted ==
    [][\A q \in BagToSet(inflight) :
        (/\ ReturnStep(q)
         /\ PendingFor(q.token, inflight') = {}
         /\ getCacheKey(q.token) \in DOMAIN tokenCache') =>
            /\ served'.cause = "authority-ok"
            /\ tokenCache'[getCacheKey(q.token)] =
                  [userData |-> served'.identity,
                   expiresAt |-> now + CacheTtlMs]]_vars

\* C20 amended: the cache holds at most one entry per credential; a
\* validation that the authority accepts overwrites the credential's entry
\* with its own identity and a fresh expiry when it completes (last write
\* wins) and attaches that identity; a validation that fails writes nothing,
\* leaves an entry written by an earlier racer in place, and leaves the
\* request unauthenticated.
C20_LastWriteWins ==
    /\ [](/\ DOMAIN tokenCache \subseteq { getCacheKey(t) : t \in SanctumTokens }
          /\ Cardinality(DOMAIN tokenCache) <= Cardinality(SanctumTokens))
    /\ [][\A q \in BagToSet(inflight), response \in AuthorityResponses :
            AuthorityResponds(q, response) =>
                IF Accepted(response)
                THEN /\ tokenCache' =
                          MapSet(tokenCache, getCacheKey(q.token),
                                 [userData |-> response.validateToken,
                                  expiresAt |-> now + CacheTtlMs])
                     /\ served'.auth =
                          [authenticated |-> TRUE, user |-> response.validateToken,
                           token |-> q.token, tokenType |-> "sanctum"]
                ELSE /\ tokenCache' = tokenCache
                     /\ served'.auth = Unauthenticated]_vars

\* Two validations of one credential have raced: the first to complete was
\* accepted and wrote the entry, the last to complete has failed, and the
\* entry of the first is still there.
C20_Witness ==
    /\ served # NoObservation
    /\ served.cause \in RemoteFailures
    /\ ~served.auth.authenticated
    /\ PendingFor(served.token, inflight) = {}
    /\ getCacheKey(served.token) \in DOMAIN tokenCache

\* C21: after clearTokenCache(token) has returned, the next request that
\* presents the token is not served from the cache: its lookup misses and it
\* calls the authority, also when a validation of the token was in flight
\* when clearTokenCache was called.
C21_ClearedIsRevalidated ==
    [][\A t \in SanctumTokens :
        (cleared = t /\ LookupStep(t)) => MissStep(t)]_vars

\* C22: a call of cleanExpiredCache removes exactly the entries with
\* now > expiresAt, leaves every other entry as it was (key, identity and
\* expiresAt), and returns the number of entries it removed; right after it
\* no entry with expiresAt < now is in the cache.
C22_SweepRemovesExactlyExpired ==
    [][TimerFires =>
        LET expired == { k \in DOMAIN tokenCache : now > tokenCache[k].expiresAt }
        IN  /\ DOMAIN tokenCache' = DOMAIN tokenCache \ expired
            /\ \A k \in DOMAIN tokenCache' : tokenCache'[k] = tokenCache[k]
            /\ sweepTimer'.cleaned = Cardinality(expired)
            /\ sweepTimer'.cleaned =
                  Cardinality(DOMAIN tokenCache) - Cardinality(DOMAIN tokenCache')
            /\ \A k \in DOMAIN tokenCache' : ~(tokenCache'[k].expiresAt < now)]_vars

\* The timer has fired twice; its last call removed one entry and kept
\* another, one that expires at the very instant of the call.
C22_Witness ==
    /\ sweepTimer.due = 3 * SweepIntervalMs
    /\ now = 2 * SweepIntervalMs
    /\ sweepTimer.cleaned = 1
    /\ \E k \in DOMAIN tokenCache : tokenCache[k].expiresAt = now

C24_JwtHasNoSideEffects ==
    /\ [](\A q \in BagToSet(inflight) : HasSeparator(q.token))
    /\ []((served # NoObservation /\ TruthyStr(served.token)
                /\ ~HasSeparator(served.token)) =>
            /\ served.validator = "jwt"
            /\ served.calls = 0
            /\ served.cause \in {"jwt-ok"} \cup LocalFailures)
    /\ [][(served' # served /\ served' # NoObservation
                /\ TruthyStr(served'.token) /\ ~HasSeparator(served'.token)) =>
            /\ tokenCache' = tokenCache
            /\ writtenAt' = writtenAt
            /\ inflight' = inflight]_vars

\* A self-contained credential has been rejected locally while the cache
\* held an entry and another request was waiting for the authority.
C24_Witness ==
    /\ served # NoObservation
    /\ served.validator = "jwt"
    /\ served.cause \in LocalFailures
    /\ DOMAIN tokenCache # {}
    /\ inflight # EmptyBag

\* --------------------------------------------------------------------------
\* Vocabulary of the claim on the guards
\* --------------------------------------------------------------------------
\* The request is authenticated.
IsAuthenticated(auth) == auth # UndefinedObj /\ auth.authenticated

\* The role set of the identity of a request: its role together with every
\* element of its roles.
RoleSet(auth) ==
    IF ~IsAuthenticated(auth) \/ auth.user = UndefinedObj THEN {}
    ELSE { r \in {auth.user.role} : TruthyVal(r) }
         \cup (IF auth.user.roles = UndefinedStr THEN {}
               ELSE { auth.user.roles[i] : i \in DOMAIN auth.user.roles })

\* C25: requireRole(allowedRoles) calls next() exactly when the request is
\* authenticated and the role set of its identity intersects allowedRoles,
\* and otherwise answers 401 (not authenticated) or 403 (no role allowed)
\* without calling next(); requireAuth calls next() exactly when the request
\* is authenticated and otherwise answers 401.
C25_GuardsByRoleSet ==
    guardResult # NoGuard =>
        LET auth == guardInput.auth
            allowed == { guardInput.allowedRoles[i] :
                           i \in DOMAIN guardInput.allowedRoles }
            permitted == IsAuthenticated(auth) /\ RoleSet(auth) \cap allowed # {}
        IN  /\ guardResult.requireRole =
                  (IF permitted THEN GuardPassed
                   ELSE IF ~IsAuthenticated(auth) THEN GuardRejected(401)
                   ELSE GuardRejected(403))
            /\ guardResult.requireAuth =
                  (IF IsAuthenticated(auth) THEN GuardPassed
                   ELSE GuardRejected(401))

\* C26: on a gateway that started without its services, once the services
\* are online and a polling cycle has composed the schema, a request to
\* /graphql is served (status 200), without a restart.
C26_GraphqlServedAfterRecovery ==
    [][(startOutcome = "connectivity" /\ recomposed /\ HttpGet("/graphql")) =>
         lastResponse'.status = 200]_vars

\* C27: the status getStatus() reports is a last-known partition: its two
\* lists are disjoint, and a service whose most recent completed probe
\* failed is not in availableServices.
C27_StatusIsLastKnownPartition ==
    /\ getStatus.availableServices \cap getStatus.unavailableServices = {}
    /\ \A n \in DOMAIN lastProbe :
          lastProbe[n] = "failed" => n \notin getStatus.availableServices

\* C28: between probes unavailableServices holds exactly the services whose
\* most recent completed probe failed, and a completed probe logs 'Service
\* recovered' for its service exactly when it succeeded and the previous
\* completed probe of that service had failed.
C28_RecoveryLoggedOncePerRecovery ==
    /\ [](unavailableServices = {n \in DOMAIN lastProbe : lastProbe[n] = "failed"})
    /\ [][\A q \in BagToSet(runs), outcome \in ProbeOutcomes :
            ProbeSettles(q, outcome) =>
                LET n == SUBGRAPH_CONFIG[q.i]
                IN  recoveredLog' =
                        IF outcome = "ok" /\ lastProbe[n] = "failed"
                        THEN n ELSE "none"]_vars

\* A probe has just logged the recovery of a service: its previous completed
\* probe had failed and this one succeeded.
C28_Witness ==
    /\ recoveredLog \in DOMAIN lastProbe
    /\ lastProbe[recoveredLog] = "ok"
    /\ recoveredLog \in availableServices
    /\ recoveredLog \notin unavailableServices

\* C29: a cache hit leaves the cache as it was (the expiry is not renewed);
\* an identity served from the cache was written from an authority response
\* at most 300s earlier; and a lookup of a credential whose entry is older
\* than 300s goes to the authority.
C29_HitWithinTtlOfAuthority ==
    [][\A t \in SanctumTokens :
        LET k == getCacheKey(t)
        IN  /\ HitStep(t) =>
                /\ tokenCache' = tokenCache
                /\ k \in DOMAIN writtenAt
                /\ now - writtenAt[k] <= CACHE_TTL_SECONDS * 1000
            /\ (/\ LookupStep(t)
                /\ k \in DOMAIN writtenAt
                /\ now - writtenAt[k] > CACHE_TTL_SECONDS * 1000) => MissStep(t)]_vars

\* An identity has been served from the cache 300s after the authority
\* confirmed it, and the entry still expires at that instant.
C29_Witness ==
    /\ served # NoObservation
    /\ served.cause = "cache-hit"
    /\ getCacheKey(served.token) \in DOMAIN tokenCache
    /\ now - writtenAt[getCacheKey(served.token)] = CACHE_TTL_SECONDS * 1000
    /\ tokenCache[getCacheKey(served.token)].expiresAt = now

\* C30: every cache entry was written from a successful authority response
\* for a credential with its key: its identity has a non-empty id and it
\* expires 300s after it was written; and an entry is added or replaced only
\* by an invocation that returns from an accepted authority response, with
\* the identity of that response, under the key of its credential.
C30_EntriesComeFromAuthority ==
    /\ [](\A k \in DOMAIN tokenCache :
            /\ TruthyVal(tokenCache[k].userData.id)
            /\ k \in DOMAIN writtenAt
            /\ tokenCache[k].expiresAt = writtenAt[k] + 300 * 1000
            /\ \E t \in SanctumTokens : k = getCacheKey(t))
    /\ [][\A k \in DOMAIN tokenCache' :
            (k \notin DOMAIN tokenCache \/ tokenCache'[k] # tokenCache[k]) =>
                \E q \in BagToSet(inflight), r \in AuthorityResponses :
                    /\ Accepted(r)
                    /\ ReturnStep(q)
                    /\ detectTokenType(q.token) = "sanctum"
                    /\ k = getCacheKey(q.token)
                    /\ served'.cause = "authority-ok"
                    /\ served'.identity = r.validateToken
                    /\ tokenCache'[k] = [userData |-> r.validateToken,
                                         expiresAt |-> now + 300 * 1000]]_vars

\* An invocation has just returned from an accepted authority response,
\* later than the start, and the entry of its credential holds the identity
\* of that response and expires 300s from now.
C30_Witness ==
    /\ served # NoObservation
    /\ served.cause = "authority-ok"
    /\ now > 0
    /\ getCacheKey(served.token) \in DOMAIN tokenCache
    /\ tokenCache[getCacheKey(served.token)] =
            [userData |-> served.identity, expiresAt |-> now + 300 * 1000]
    /\ writtenAt[getCacheKey(served.token)] = now

\* C31: whenever authenticateRequest ends with authenticated=true, on the
\* remote or on the local path, the identity attached to the request has a
\* defined, non-empty id.
C31_AuthenticatedHasId ==
    (served # NoObservation /\ served.auth.authenticated) =>
        /\ served.auth.user # UndefinedObj
        /\ TruthyVal(served.auth.user.id)

\* C32: schemaReady implies serverStarted in every state; the two flags are
\* assigned only, and together, when apolloServer.start() settles; the
\* /graphql routes are registered only by the setup that follows, and only
\* if schemaReady is true then; and schemaReady, once true, stays true.
C32_ReadyImpliesStarted ==
    /\ [](/\ schemaReady => serverStarted
          /\ graphqlRoutes => schemaReady)
    /\ [][/\ (serverStarted' # serverStarted \/ schemaReady' # schemaReady) =>
                /\ phase = "starting"
                /\ phase' = "settled"
                /\ serverStarted'
                /\ schemaReady' = (startOutcome' = "ok")
          /\ graphqlRoutes' # graphqlRoutes =>
                /\ phase = "settled"
                /\ phase' # "settled"
                /\ schemaReady
                /\ graphqlRoutes'
          /\ schemaReady => schemaReady']_vars

\* The start succeeded, the routes are registered and the server listens.
C32_Witness ==
    /\ schemaReady
    /\ serverStarted
    /\ graphqlRoutes
    /\ startOutcome = "ok"
    /\ phase = "listening"

\* C33: a lookup that finds an expired entry reports a miss and removes that
\* entry and no other, every other entry staying as it was; a lookup that
\* finds no entry, or an entry that has not expired, leaves the cache as it
\* was.
C33_LookupEvictsOnlyExpired ==
    [][\A t \in SanctumTokens :
        LET k == getCacheKey(t)
            expired == k \in DOMAIN tokenCache /\ now > tokenCache[k].expiresAt
        IN  LookupStep(t) =>
                IF expired
                THEN /\ MissStep(t)
                     /\ DOMAIN tokenCache' = (DOMAIN tokenCache) \ {k}
                     /\ \A x \in DOMAIN tokenCache' : tokenCache'[x] = tokenCache[x]
                ELSE /\ tokenCache' = tokenCache
                     /\ (k \in DOMAIN tokenCache) = HitStep(t)]_vars

\* A lookup has found the entry of its credential expired and has removed
\* it, and the entry of the other credential is still in the cache.
C33_Witness ==
    /\ \E q \in BagToSet(inflight) :
          /\ q.found = "expired"
          /\ getCacheKey(q.token) \notin DOMAIN tokenCache
    /\ DOMAIN tokenCache # {}

\* The names of the endpoints among the first n whose probe, in the run
\* with the outcomes probed, ended as wanted (succeeded or not), in order.
OwnList(probed, n, succeeded) ==
    SelectSeq([j \in 1..n |-> j],
              LAMBDA j : (probed[j] = "ok") = succeeded)

\* C34: with runs interleaved at their awaits, the lists of every run, in
\* progress or returned, are made of the outcomes of its own probes only:
\* the endpoints it has probed so far, each once, in the list its own
\* outcome chose; and a probe that settles in one run changes the lists of
\* no other run.
C34_RunListsAreOwn ==
    /\ [](/\ \A q \in BagToSet(runs) :
                /\ Len(q.probed) = q.i - 1
                /\ q.available =
                     [x \in DOMAIN OwnList(q.probed, q.i - 1, TRUE) |->
                        SUBGRAPH_CONFIG[OwnList(q.probed, q.i - 1, TRUE)[x]]]
                /\ q.unavailable =
                     [x \in DOMAIN OwnList(q.probed, q.i - 1, FALSE) |->
                        SUBGRAPH_CONFIG[OwnList(q.probed, q.i - 1, FALSE)[x]]]
          /\ detailed.answer.status = 200 =>
                LET n == Len(detailed.probed)
                IN  /\ detailed.answer.available =
                         [x \in DOMAIN OwnList(detailed.probed, n, TRUE) |->
                            SUBGRAPH_CONFIG[OwnList(detailed.probed, n, TRUE)[x]]]
                    /\ detailed.answer.unavailable =
                         [x \in DOMAIN OwnList(detailed.probed, n, FALSE) |->
                            SUBGRAPH_CONFIG[OwnList(detailed.probed, n, FALSE)[x]]])
    /\ [][\A q \in BagToSet(runs), outcome \in ProbeOutcomes :
            ProbeSettles(q, outcome) =>
                \A other \in BagToSet(runs) \ {q} :
                    CopiesIn(other, runs') >= CopiesIn(other, runs)]_vars

\* Two runs are interleaved and disagree about the first endpoint: a run
\* that found it unavailable has returned while a run that found it
\* available is still in progress.
C34_Witness ==
    /\ detailed.answer.status = 200
    /\ detailed.answer.unavailable = SUBGRAPH_CONFIG
    /\ \E q \in BagToSet(runs) : q.available = <<SUBGRAPH_CONFIG[1]>>

====
